---- MODULE Spec2Model ----
(***************************************************************************)
(* maybe-zod: the two adapters Maybe (synchronous) and AsyncMaybe          *)
(* (asynchronous) that validate an input with a schema, apply a transform  *)
(* to the validated data and pack the outcome into a pair [error, value].  *)
(*                                                                         *)
(* JavaScript values are tagged records; strings are sequences of          *)
(* characters so that length, upper-casing and JSON encoding are computed. *)
(***************************************************************************)
EXTENDS Integers, Sequences, FiniteSets, TLC

(* Number of invocation slots of the one constructed validator. *)
NumInv == 2

Inv == 1..NumInv

-----------------------------------------------------------------------------
(* JavaScript values *)

Null == [t |-> "null"]
Undefined == [t |-> "undefined"]
Str(s) == [t |-> "string", chars |-> s]
Num(k) == [t |-> "number", n |-> k]
Obj(nm, ag, em) == [t |-> "object", name |-> nm, age |-> ag, email |-> em]
Err(m) == [t |-> "Error", message |-> m]
(* the promise an async transform returns: settled when it is created *)
Settled(st, v) == [t |-> "Promise", state |-> st, value |-> v]

IsStr(v) == v.t = "string"
IsObj(v) == v.t = "object"

UpperChar(c) ==
  CASE c = "a" -> "A"
    [] c = "b" -> "B"
    [] OTHER -> c

(* String.prototype.toUpperCase *)
ToUpperCase(s) == [k \in 1..Len(s) |-> UpperChar(s[k])]

Digits == {"1", "2"}
DigitVal(c) == IF c = "1" THEN 1 ELSE 2

RECURSIVE Decimal(_)
Decimal(s) == IF s = <<>> THEN 0
              ELSE 10 * Decimal(SubSeq(s, 1, Len(s) - 1)) + DigitVal(s[Len(s)])

(* JSON.parse on the text of a string: a numeral parses, anything else raises *)
JsonParseText(s) ==
  IF s # <<>> /\ \A k \in 1..Len(s) : s[k] \in Digits
    THEN [threw |-> FALSE, value |-> Num(Decimal(s))]
    ELSE [threw |-> TRUE, value |-> Err("SyntaxError")]

-----------------------------------------------------------------------------
(* The validation engine: issues, their JSON text, and the schemas *)

Issue(p, m) == [path |-> p, message |-> m]

RECURSIVE StringifyIssues(_)
StringifyIssues(is) ==
  IF is = <<>> THEN <<>>
  ELSE <<"{", is[1].path, ":", is[1].message, "}">>
       \o (IF Len(is) > 1 THEN <<",">> ELSE <<>>)
       \o StringifyIssues(Tail(is))

(* ZodError.message: JSON.stringify of the issue list *)
ZodErrorMessage(is) == <<"[">> \o StringifyIssues(is) \o <<"]">>

(* email check: exactly one "@", neither first nor last *)
IsEmail(s) ==
  /\ Cardinality({k \in 1..Len(s) : s[k] = "@"}) = 1
  /\ Len(s) >= 3
  /\ s[1] # "@"
  /\ s[Len(s)] # "@"

NameIssues(v) ==
  (IF Len(v) < 2 THEN <<Issue("name", "String must contain at least 2 character(s)")>> ELSE <<>>)
  \o (IF Len(v) > 50 THEN <<Issue("name", "String must contain at most 50 character(s)")>> ELSE <<>>)

AgeIssues(v) ==
  IF v > 0 THEN <<>> ELSE <<Issue("age", "Number must be greater than 0")>>

EmailIssues(v) ==
  IF IsEmail(v) THEN <<>> ELSE <<Issue("email", "Invalid email")>>

(* issues userSchema reports for x *)
UserIssues(x) ==
  IF ~IsObj(x) THEN <<Issue("", "Expected object")>>
  ELSE NameIssues(x.name) \o AgeIssues(x.age) \o EmailIssues(x.email)

StringIssues(x) ==
  IF IsStr(x) THEN <<>> ELSE <<Issue("", "Expected string")>>

Success(d) == [success |-> TRUE, data |-> d]
Failure(is) == [success |-> FALSE, error |-> [issues |-> is]]
(* a failure outcome that carries no error *)
BareFailure == [success |-> FALSE]

Returns(v) == [threw |-> FALSE, value |-> v]
Throws(e) == [threw |-> TRUE, value |-> e]

Schemas == {"userSchema", "stringSchema", "upperSchema", "jsonSchema", "bareSchema"}

(* schema.safeParse(x): the tagged outcome, or the exception the schema's  *)
(* own transform raises.  safeParseAsync settles to the same: fulfilled    *)
(* with the outcome, or rejected with the exception.                       *)
SafeParse(schema, x) ==
  CASE schema = "userSchema" ->
         Returns(IF UserIssues(x) = <<>> THEN Success(x) ELSE Failure(UserIssues(x)))
    [] schema = "stringSchema" ->
         Returns(IF IsStr(x) THEN Success(x) ELSE Failure(StringIssues(x)))
    [] schema = "upperSchema" ->
         Returns(IF IsStr(x) THEN Success(Str(ToUpperCase(x.chars)))
                 ELSE Failure(StringIssues(x)))
    [] schema = "jsonSchema" ->
         IF ~IsStr(x) THEN Returns(Failure(StringIssues(x)))
         ELSE IF JsonParseText(x.chars).threw THEN Throws(JsonParseText(x.chars).value)
         ELSE Returns(Success(JsonParseText(x.chars).value))
    [] schema = "bareSchema" ->
         Returns(IF IsStr(x) THEN Success(x) ELSE BareFailure)

-----------------------------------------------------------------------------
(* The transforms handed to the validators *)

Fns == {"identity", "noop", "toUpperCase", "asyncUpper"}

(* fn(data): its return value, or the exception it raises *)
Apply(fn, d) ==
  CASE fn = "identity" -> Returns(d)
    [] fn = "noop" -> Returns(Undefined)
    [] fn = "toUpperCase" ->
         IF IsStr(d) THEN Returns(Str(ToUpperCase(d.chars))) ELSE Throws(Err("TypeError"))
    [] fn = "asyncUpper" ->
         IF IsStr(d) THEN Returns(Settled("fulfilled", Str(ToUpperCase(d.chars))))
         ELSE Returns(Settled("rejected", Err("TypeError")))

-----------------------------------------------------------------------------
(* Inputs *)

validUser == Obj(<<"a", "b">>, 30, <<"a", "@", "b">>)
invalidUser == Obj(<<"A">>, -5, <<"a", "b">>)
shortNameUser == Obj(<<"A">>, 30, <<"a", "@", "b">>)
badAgeMailUser == Obj(<<"a", "b">>, 0, <<"@", "b">>)

RawInputs == {validUser, invalidUser, shortNameUser, badAgeMailUser,
              Str(<<"a", "b">>), Str(<<"1", "2">>)}

Reasons == {Err("Network error"), Err("Timeout")}

-----------------------------------------------------------------------------
(* The adapters *)

UnknownError == Str(<<"Unknown error">>)

(* slip: only the first issue's message is handed back *)
MessageOfFirstIssue(result) ==
  IF "error" \in DOMAIN result
    THEN (IF result.error.issues = <<>> THEN Str(<<>>)
          ELSE Str(<<result.error.issues[1].message>>))
    ELSE Undefined

(* slip: a message is made up when the outcome carries none *)
MessageOfSynthesized(result) ==
  IF "error" \in DOMAIN result THEN Str(ZodErrorMessage(result.error.issues))
  ELSE Str(<<"Unknown error">>)

(* result.error?.message *)
MessageOf(result) ==
  IF "error" \in DOMAIN result THEN Str(ZodErrorMessage(result.error.issues))
  ELSE Undefined

(* slip: fn is applied whatever the outcome *)
PackAlwaysApplies(fn, result) ==
  IF result.success
    THEN IF Apply(fn, result.data).threw
           THEN Throws(Apply(fn, result.data).value)
           ELSE Returns(<<Null, Apply(fn, result.data).value>>)
    ELSE IF Apply(fn, Undefined).threw
           THEN Throws(Apply(fn, Undefined).value)
           ELSE Returns(<<MessageOf(result), Apply(fn, Undefined).value>>)

(* slip: a failure outcome is raised instead of packed *)
PackFailureThrows(fn, result) ==
  IF result.success
    THEN IF Apply(fn, result.data).threw
           THEN Throws(Apply(fn, result.data).value)
           ELSE Returns(<<Null, Apply(fn, result.data).value>>)
    ELSE Throws(Err("ZodError"))

(* slip: fn is handed the outcome object instead of its data *)
PackOnOutcome(fn, result) ==
  IF result.success
    THEN IF Apply(fn, [t |-> "outcome", data |-> result.data]).threw
           THEN Throws(Apply(fn, [t |-> "outcome", data |-> result.data]).value)
           ELSE Returns(<<Null, Apply(fn, [t |-> "outcome", data |-> result.data]).value>>)
    ELSE Returns(<<MessageOf(result), Null>>)

(* result.success ? [null, fn(result.data)] : [result.error?.message, null] *)
Pack(fn, result) ==
  IF result.success
    THEN IF Apply(fn, result.data).threw
           THEN Throws(Apply(fn, result.data).value)
           ELSE Returns(<<Null, Apply(fn, result.data).value>>)
    ELSE Returns(<<MessageOf(result), Null>>)

(* slip: fn is called before the outcome is looked at *)
FnCallsAlways(result) == 1

(* how often the conditional calls fn: only its success branch does *)
FnCalls(result) == IF result.success THEN 1 ELSE 0

(* slip: fn is applied to the raw input instead of result.data *)
MaybeOnRawInput(fn, schema, x) ==
  IF SafeParse(schema, x).threw THEN Throws(SafeParse(schema, x).value)
  ELSE IF ~SafeParse(schema, x).value.success
    THEN Returns(<<MessageOf(SafeParse(schema, x).value), Null>>)
  ELSE IF Apply(fn, x).threw THEN Throws(Apply(fn, x).value)
  ELSE Returns(<<Null, Apply(fn, x).value>>)

(* slip: Maybe wrapped in the try/catch of AsyncMaybe *)
MaybeCatchesFn(fn, schema, x) ==
  IF SafeParse(schema, x).threw THEN Returns(<<Str(<<"Unknown error">>), Null>>)
  ELSE IF Pack(fn, SafeParse(schema, x).value).threw
    THEN Returns(<<Str(<<"Unknown error">>), Null>>)
  ELSE Pack(fn, SafeParse(schema, x).value)

(* Maybe(fn, schema)(x): the pair returned, or the exception that escapes *)
Maybe(fn, schema, x) ==
  IF SafeParse(schema, x).threw THEN Throws(SafeParse(schema, x).value)
  ELSE Pack(fn, SafeParse(schema, x).value)

(* slip: the cause is handed back instead of the fixed string *)
CatchHandlerLeaky(error) == <<Str(<<error.message>>), Null>>

(* catch (error) { return ['Unknown error', null]; } *)
CatchHandler(error) == <<UnknownError, Null>>

Fulfilled(pair) == [state |-> "fulfilled", pair |-> pair]
Rejected(e) == [state |-> "rejected", reason |-> e]

(* slip: fn is called after the try block *)
AsyncReturnFnOutsideTry(fn, p) ==
  IF p.state = "rejected" THEN Fulfilled(CatchHandler(p.value))
  ELSE IF Pack(fn, p.value).threw THEN Rejected(Pack(fn, p.value).value)
  ELSE Fulfilled(Pack(fn, p.value).value)

(* slip: the value fn returns is awaited *)
AsyncReturnAwaitsFn(fn, p) ==
  IF p.state = "rejected" THEN Fulfilled(CatchHandler(p.value))
  ELSE IF Pack(fn, p.value).threw THEN Fulfilled(CatchHandler(Pack(fn, p.value).value))
  ELSE IF Pack(fn, p.value).value[2].t # "Promise" THEN Fulfilled(Pack(fn, p.value).value)
  ELSE IF Pack(fn, p.value).value[2].state = "rejected"
    THEN Fulfilled(CatchHandler(Pack(fn, p.value).value[2].value))
  ELSE Fulfilled(<<Null, Pack(fn, p.value).value[2].value>>)

(* slip: only the await of the input is inside the try block *)
AsyncReturnRethrows(fn, p) ==
  IF p.state = "rejected" THEN Rejected(p.value)
  ELSE IF Pack(fn, p.value).threw THEN Fulfilled(CatchHandler(Pack(fn, p.value).value))
  ELSE Fulfilled(Pack(fn, p.value).value)

(* The try block of AsyncMaybe from the point where safeParseAsync has     *)
(* settled as p: how the returned promise settles.                         *)
AsyncReturn(fn, p) ==
  IF p.state = "rejected" THEN Fulfilled(CatchHandler(p.value))
  ELSE IF Pack(fn, p.value).threw THEN Fulfilled(CatchHandler(Pack(fn, p.value).value))
  ELSE Fulfilled(Pack(fn, p.value).value)

(* how the promise of schema.safeParseAsync(x) settles *)
SafeParseAsync(schema, x) ==
  IF SafeParse(schema, x).threw
    THEN [state |-> "rejected", value |-> SafeParse(schema, x).value]
    ELSE [state |-> "fulfilled", value |-> SafeParse(schema, x).value]

-----------------------------------------------------------------------------
(* State *)

VARIABLES
  validator,  \* the (fn, schema) the validator was constructed with
  pc,         \* per invocation: where it stands
  data,       \* per invocation: the argument (a promise for AsyncMaybe)
  parsed,     \* per invocation: the promise of safeParseAsync
  ret,        \* per invocation: what the caller got
  calls       \* per invocation: how often fn and the schema were invoked

vars == <<validator, pc, data, parsed, ret, calls>>

NoPromise == [state |-> "none", value |-> Null]
PendingPromise == [state |-> "pending", value |-> Null]

(* the promises a caller can hand to AsyncMaybe *)
InputPromises ==
  {PendingPromise}
  \cup {[state |-> "fulfilled", value |-> x] : x \in RawInputs}
  \cup {[state |-> "rejected", value |-> r] : r \in Reasons}

Init ==
  /\ validator \in [fn : Fns, schema : Schemas]
  /\ pc = [i \in Inv |-> "idle"]
  /\ data = [i \in Inv |-> NoPromise]
  /\ parsed = [i \in Inv |-> NoPromise]
  /\ ret = [i \in Inv |-> [state |-> "none"]]
  /\ calls = [i \in Inv |-> [fn |-> 0, parse |-> 0]]

(* slip: result kept in a variable all invocations share *)
ResultOfShared(i) ==
  parsed[CHOOSE j \in Inv : parsed[j].state \in {"fulfilled", "rejected"}]

(* const result = ... : the outcome this invocation awaited *)
ResultOf(i) == parsed[i]

(* slip: the promise is handed to safeParseAsync before it is awaited *)
AsyncCallValidatesFirst(i, p) ==
  /\ pc[i] = "idle"
  /\ pc' = [pc EXCEPT ![i] = "validating"]
  /\ data' = [data EXCEPT ![i] = p]
  /\ parsed' = [parsed EXCEPT ![i] = PendingPromise]
  /\ calls' = [calls EXCEPT ![i].parse = @ + 1]
  /\ ret' = [ret EXCEPT ![i] = [state |-> "pending"]]
  /\ UNCHANGED validator

(* AsyncMaybe(fn, schema)(p): runs up to `await data` *)
AsyncCall(i, p) ==
  /\ pc[i] = "idle"
  /\ pc' = [pc EXCEPT ![i] = "awaiting-input"]
  /\ data' = [data EXCEPT ![i] = p]
  /\ ret' = [ret EXCEPT ![i] = [state |-> "pending"]]
  /\ UNCHANGED <<validator, parsed, calls>>

(* the caller's pending promise settles *)
InputSettles(i, s) ==
  /\ pc[i] = "awaiting-input"
  /\ data[i].state = "pending"
  /\ s.state # "pending"
  /\ data' = [data EXCEPT ![i] = s]
  /\ UNCHANGED <<validator, pc, parsed, ret, calls>>

(* slip: a timer of the adapter gives up on an input that is still pending *)
AfterInputTimeout(i) ==
  /\ pc[i] = "awaiting-input"
  /\ IF data[i].state # "fulfilled"
       THEN /\ ret' = [ret EXCEPT ![i] = Fulfilled(CatchHandler(data[i].value))]
            /\ pc' = [pc EXCEPT ![i] = "resolved"]
            /\ UNCHANGED <<parsed, calls>>
       ELSE /\ parsed' = [parsed EXCEPT ![i] = PendingPromise]
            /\ calls' = [calls EXCEPT ![i].parse = @ + 1]
            /\ pc' = [pc EXCEPT ![i] = "validating"]
            /\ UNCHANGED ret
  /\ UNCHANGED <<validator, data>>

(* resumption after `await data` *)
AfterInput(i) ==
  /\ pc[i] = "awaiting-input"
  /\ data[i].state \in {"fulfilled", "rejected"}
  /\ IF data[i].state = "rejected"
       THEN /\ ret' = [ret EXCEPT ![i] = Fulfilled(CatchHandler(data[i].value))]
            /\ pc' = [pc EXCEPT ![i] = "resolved"]
            /\ UNCHANGED <<parsed, calls>>
       ELSE /\ parsed' = [parsed EXCEPT ![i] = PendingPromise]
            /\ calls' = [calls EXCEPT ![i].parse = @ + 1]
            /\ pc' = [pc EXCEPT ![i] = "validating"]
            /\ UNCHANGED ret
  /\ UNCHANGED <<validator, data>>

(* the engine settles the promise of safeParseAsync *)
ParseSettles(i) ==
  /\ pc[i] = "validating"
  /\ parsed[i].state = "pending"
  /\ parsed' = [parsed EXCEPT ![i] = SafeParseAsync(validator.schema, data[i].value)]
  /\ UNCHANGED <<validator, pc, data, ret, calls>>

(* resumption after `await schema.safeParseAsync(...)` *)
AfterParse(i) ==
  /\ pc[i] = "validating"
  /\ parsed[i].state \in {"fulfilled", "rejected"}
  /\ ret' = [ret EXCEPT ![i] = AsyncReturn(validator.fn, ResultOf(i))]
  /\ calls' = [calls EXCEPT ![i].fn =
                 IF ResultOf(i).state = "fulfilled"
                   THEN @ + FnCalls(ResultOf(i).value) ELSE @]
  /\ pc' = [pc EXCEPT ![i] = "resolved"]
  /\ UNCHANGED <<validator, data, parsed>>

(* Maybe(fn, schema)(x): one synchronous call *)
SyncCall(i, x) ==
  /\ pc[i] = "idle"
  /\ data' = [data EXCEPT ![i] = [state |-> "value", value |-> x]]
  /\ ret' = [ret EXCEPT ![i] =
               IF Maybe(validator.fn, validator.schema, x).threw
                 THEN [state |-> "threw", reason |-> Maybe(validator.fn, validator.schema, x).value]
                 ELSE [state |-> "returned", pair |-> Maybe(validator.fn, validator.schema, x).value]]
  /\ pc' = [pc EXCEPT ![i] =
               IF Maybe(validator.fn, validator.schema, x).threw THEN "threw" ELSE "returned"]
  /\ calls' = [calls EXCEPT ![i] =
                 [parse |-> 1,
                  fn |-> IF ~SafeParse(validator.schema, x).threw
                           THEN FnCalls(SafeParse(validator.schema, x).value) ELSE 0]]
  /\ UNCHANGED <<validator, parsed>>

Next ==
  \/ \E i \in Inv, p \in InputPromises : AsyncCall(i, p)
  \/ \E i \in Inv, s \in InputPromises : InputSettles(i, s)
  \/ \E i \in Inv : AfterInput(i)
  \/ \E i \in Inv : ParseSettles(i)
  \/ \E i \in Inv : AfterParse(i)
  \/ \E i \in Inv, x \in RawInputs : SyncCall(i, x)

Spec == Init /\ [][Next]_vars

(* AsyncMaybe alone.  The event loop runs every continuation that is       *)
(* ready; the caller's promise and the engine's promise are taken to       *)
(* settle.                                                                 *)
(* the steps of the invocations of AsyncMaybe *)
LiveNext ==
  \/ \E i \in Inv, p \in InputPromises : AsyncCall(i, p)
  \/ \E i \in Inv, s \in InputPromises : InputSettles(i, s)
  \/ \E i \in Inv : AfterInput(i)
  \/ \E i \in Inv : ParseSettles(i)
  \/ \E i \in Inv : AfterParse(i)

LiveSpec ==
  /\ Init
  /\ [][LiveNext]_vars
  /\ \A i \in Inv :
       /\ WF_vars(\E s \in InputPromises : InputSettles(i, s))
       /\ WF_vars(AfterInput(i))
       /\ WF_vars(ParseSettles(i))
       /\ WF_vars(AfterParse(i))

-----------------------------------------------------------------------------
(* Vocabulary of the properties *)

Absent(v) == v.t \in {"null", "undefined"}

IsSync(i) == pc[i] \in {"returned", "threw"}
IsAsyncDone(i) == pc[i] = "resolved"
HasPair(i) == ret[i].state \in {"returned", "fulfilled"}
ErrorOf(i) == ret[i].pair[1]
ValueOf(i) == ret[i].pair[2]

SentinelPair == <<Str(<<"Unknown error">>), Null>>

(* the engine produced a tagged outcome for invocation i *)
HasOutcome(i) ==
  \/ IsSync(i) /\ ~SafeParse(validator.schema, data[i].value).threw
  \/ IsAsyncDone(i) /\ parsed[i].state = "fulfilled"

OutcomeOf(i) ==
  IF IsSync(i) THEN SafeParse(validator.schema, data[i].value).value
  ELSE parsed[i].value

Validated(i) == HasOutcome(i) /\ OutcomeOf(i).success
Invalid(i) == HasOutcome(i) /\ ~OutcomeOf(i).success

(* fn applied to the validated data of invocation i *)
FnOnData(i) == Apply(validator.fn, OutcomeOf(i).data)
(* fn applied to the raw input of invocation i *)
FnOnInput(i) == Apply(validator.fn, data[i].value)

-----------------------------------------------------------------------------
(* C1 (as stated): every pair Maybe returns and every pair AsyncMaybe      *)
(* resolves to has exactly one of (error, value) non-empty.                *)
C1_ExactlyOne ==
  \A i \in Inv : HasPair(i) => (Absent(ErrorOf(i)) # Absent(ValueOf(i)))

(* C1 (amended): never both present: the value is absent whenever the      *)
(* error is present, the error is absent whenever validation succeeded and *)
(* fn returned, and both are absent only when fn returned an absent value  *)
(* or the failure outcome carried no message.                              *)
C1_NeverBoth ==
  \A i \in Inv : HasPair(i) =>
    /\ Absent(ErrorOf(i)) \/ Absent(ValueOf(i))
    /\ (Validated(i) /\ ~FnOnData(i).threw) => Absent(ErrorOf(i))
    /\ (Absent(ErrorOf(i)) /\ Absent(ValueOf(i))) =>
         \/ Validated(i) /\ Absent(FnOnData(i).value)
         \/ Invalid(i) /\ "error" \notin DOMAIN OutcomeOf(i)

C1_Witness ==
  \E i, j \in Inv :
    /\ pc[i] = "returned" /\ Absent(ErrorOf(i)) /\ ~Absent(ValueOf(i))
    /\ pc[j] = "resolved" /\ ~Absent(ErrorOf(j)) /\ Absent(ValueOf(j))

(* C2: when the pending input rejects, whatever the reason and whenever it *)
(* rejects, AsyncMaybe resolves to exactly ("Unknown error", null), and    *)
(* the returned promise never rejects.                                     *)
C2_RejectionCoalesced ==
  \A i \in Inv :
    /\ (IsAsyncDone(i) /\ data[i].state = "rejected") =>
         ret[i] = [state |-> "fulfilled", pair |-> SentinelPair]
    /\ ret[i].state # "rejected"

C2_Witness ==
  \E i \in Inv :
    /\ IsAsyncDone(i)
    /\ data[i] = [state |-> "rejected", value |-> Err("Timeout")]
    /\ ret[i].state = "fulfilled"

C4_RoundTripOnInput ==
  \A i \in Inv :
    (IsSync(i) /\ Validated(i) /\ ~FnOnInput(i).threw) =>
      ret[i] = [state |-> "returned", pair |-> <<Null, FnOnInput(i).value>>]

(* C4 (amended): for every input x conforming to the schema, Maybe returns *)
(* exactly (null, fn(d)) where d is the data of the engine's success       *)
(* outcome, provided fn(d) returns; d is x unless the schema transforms.   *)
C4_RoundTripOnData ==
  \A i \in Inv :
    (IsSync(i) /\ Validated(i) /\ ~FnOnData(i).threw) =>
      ret[i] = [state |-> "returned", pair |-> <<Null, FnOnData(i).value>>]

C4_Witness ==
  \E i \in Inv :
    /\ pc[i] = "returned" /\ Validated(i)
    /\ OutcomeOf(i).data # data[i].value
    /\ ValueOf(i) = Str(<<"A", "B">>)

(* C5 (as stated): given a pending input resolving to x conforming to the  *)
(* schema, AsyncMaybe resolves to (null, fn(x)); a promise returned by fn  *)
(* is placed in the value slot as it is.                                   *)
C5_AsyncPassThroughOnInput ==
  \A i \in Inv :
    (IsAsyncDone(i) /\ Validated(i) /\ ~FnOnInput(i).threw) =>
      ret[i] = [state |-> "fulfilled", pair |-> <<Null, FnOnInput(i).value>>]

(* C5 (amended): AsyncMaybe resolves to (null, fn(d)) where d is the data  *)
(* of the engine's success outcome for x, provided fn(d) returns; a        *)
(* promise returned by fn is placed in the value slot as it is, neither    *)
(* awaited nor unwrapped.                                                  *)
C5_AsyncPassThroughOnData ==
  \A i \in Inv :
    (IsAsyncDone(i) /\ Validated(i) /\ ~FnOnData(i).threw) =>
      /\ ret[i] = [state |-> "fulfilled", pair |-> <<Null, FnOnData(i).value>>]
      /\ validator.fn = "asyncUpper" => ValueOf(i).t = "Promise"

C5_Witness ==
  \E i \in Inv :
    /\ IsAsyncDone(i) /\ Validated(i)
    /\ validator.fn = "asyncUpper"
    /\ ValueOf(i) = [t |-> "Promise", state |-> "fulfilled", value |-> Str(<<"A", "B">>)]

(* C6: whenever the engine reports a failure outcome, the validator raises *)
(* or rejects nothing and hands back a pair whose value is null and whose  *)
(* error is the engine's diagnostic string.                                *)
C6_FailureRecovered ==
  \A i \in Inv :
    Invalid(i) =>
      /\ HasPair(i)
      /\ ValueOf(i) = Null
      /\ IF "error" \in DOMAIN OutcomeOf(i)
           THEN ErrorOf(i) = Str(ZodErrorMessage(OutcomeOf(i).error.issues))
           ELSE Absent(ErrorOf(i))

C6_Witness ==
  \E i, j \in Inv :
    /\ pc[i] = "returned" /\ Invalid(i) /\ ErrorOf(i).t = "string"
    /\ pc[j] = "resolved" /\ Invalid(j) /\ ErrorOf(j).t = "string"

(* C7: when Maybe is called on an input that passes validation and fn      *)
(* raises, no pair is returned and the exception reaches the caller.       *)
C7_SyncTransformFailurePropagates ==
  \A i \in Inv :
    (IsSync(i) /\ Validated(i) /\ FnOnData(i).threw) =>
      /\ pc[i] = "threw"
      /\ ret[i] = [state |-> "threw", reason |-> FnOnData(i).value]

C7_Witness ==
  \E i \in Inv :
    /\ pc[i] = "threw" /\ Validated(i)
    /\ ret[i].reason = Err("TypeError")

(* C8: when the input resolves but safeParseAsync rejects, AsyncMaybe      *)
(* resolves to exactly ("Unknown error", null), the pair it resolves to    *)
(* when the input rejects, and fn is not called.                           *)
C8_ValidationExceptionCoalesced ==
  \A i \in Inv :
    (IsAsyncDone(i) /\ parsed[i].state = "rejected") =>
      /\ data[i].state = "fulfilled"
      /\ ret[i] = [state |-> "fulfilled", pair |-> SentinelPair]
      /\ calls[i].fn = 0

C8_Witness ==
  \E i \in Inv :
    /\ IsAsyncDone(i)
    /\ parsed[i] = [state |-> "rejected", value |-> Err("SyntaxError")]
    /\ ret[i].state = "fulfilled"

(* what an invocation of AsyncMaybe resolves to when it runs alone on d *)
Alone(d) ==
  IF d.state = "rejected" THEN [state |-> "fulfilled", pair |-> SentinelPair]
  ELSE AsyncReturn(validator.fn, SafeParseAsync(validator.schema, d.value))

(* C9: however the invocations of one validator interleave, each resolves  *)
(* to the pair it resolves to when it runs alone, and a step of one        *)
(* invocation changes nothing of another.                                  *)
C9_Independent ==
  /\ [](\A i \in Inv : IsAsyncDone(i) => ret[i] = Alone(data[i]))
  /\ [][\A i \in Inv :
          (pc'[i] # pc[i] \/ data'[i] # data[i]) =>
            \A j \in Inv \ {i} :
              /\ pc'[j] = pc[j] /\ data'[j] = data[j] /\ parsed'[j] = parsed[j]
              /\ ret'[j] = ret[j] /\ calls'[j] = calls[j]]_vars

C9_Witness ==
  \E i, j \in Inv :
    /\ i # j /\ IsAsyncDone(i) /\ IsAsyncDone(j)
    /\ parsed[i].state = "fulfilled" /\ parsed[j].state = "fulfilled"
    /\ ret[i] # ret[j]

(* JSON.parse of an error string: the entries of the array it encodes *)
RECURSIVE ParseEntries(_)
ParseEntries(toks) ==
  IF Len(toks) < 5 THEN <<>>
  ELSE IF toks[1] = "," THEN ParseEntries(Tail(toks))
  ELSE <<[path |-> toks[2], message |-> toks[4]]>>
       \o ParseEntries(SubSeq(toks, 6, Len(toks)))

JsonParseArray(text) == ParseEntries(SubSeq(text, 2, Len(text) - 1))

(* the rules of userSchema an object violates *)
RuleViolations(x) ==
  {r \in {"name.min", "name.max", "age.positive", "email"} :
     \/ r = "name.min" /\ Len(x.name) < 2
     \/ r = "name.max" /\ Len(x.name) > 50
     \/ r = "age.positive" /\ x.age <= 0
     \/ r = "email" /\ ~IsEmail(x.email)}

(* C10: for every input violating several independent rules, the error     *)
(* string of Maybe and of AsyncMaybe decodes to a collection with exactly  *)
(* one entry per violation, and the value is null.                         *)
C10_DiagnosticAggregation ==
  \A i \in Inv :
    (/\ IsSync(i) \/ (IsAsyncDone(i) /\ data[i].state = "fulfilled")
     /\ validator.schema = "userSchema"
     /\ IsObj(data[i].value)
     /\ Cardinality(RuleViolations(data[i].value)) >= 2) =>
      /\ HasPair(i)
      /\ ValueOf(i) = Null
      /\ ErrorOf(i).t = "string"
      /\ Len(JsonParseArray(ErrorOf(i).chars)) = Cardinality(RuleViolations(data[i].value))

C10_Witness ==
  \E i, j \in Inv :
    /\ pc[i] = "returned" /\ data[i].value = invalidUser
    /\ ErrorOf(i).t = "string" /\ Len(JsonParseArray(ErrorOf(i).chars)) = 3
    /\ pc[j] = "resolved" /\ data[j].value = badAgeMailUser
    /\ ErrorOf(j).t = "string" /\ Len(JsonParseArray(ErrorOf(j).chars)) = 2

(* C11: when the failure outcome carries no error message, Maybe and       *)
(* AsyncMaybe hand back a pair whose error and value are both absent; no   *)
(* replacement message such as "Unknown error" is made up.                 *)
C11_NoSynthesizedMessage ==
  \A i \in Inv :
    (Invalid(i) /\ "error" \notin DOMAIN OutcomeOf(i)) =>
      /\ HasPair(i)
      /\ ErrorOf(i).t # "string"
      /\ Absent(ErrorOf(i))
      /\ Absent(ValueOf(i))

C11_Witness ==
  \E i, j \in Inv :
    /\ validator.schema = "bareSchema"
    /\ pc[i] = "returned" /\ Invalid(i) /\ ErrorOf(i) = Undefined
    /\ pc[j] = "resolved" /\ Invalid(j) /\ ErrorOf(j) = Undefined

(* order of the states of an invocation of AsyncMaybe *)
Rank(st) ==
  CASE st = "idle" -> 0
    [] st = "awaiting-input" -> 1
    [] st = "validating" -> 2
    [] st = "resolved" -> 3
    [] OTHER -> 4

(* C12: within one invocation of AsyncMaybe validation starts only after   *)
(* the pending input has resolved successfully; when the input rejects,    *)
(* validation is never started; the states advance only in the order       *)
(* awaiting-input, validating, resolved.                                   *)
C12_StrictOrdering ==
  /\ [](\A i \in Inv :
          /\ (pc[i] = "validating" \/ parsed[i].state # "none") =>
               data[i].state = "fulfilled"
          /\ data[i].state = "rejected" =>
               (parsed[i].state = "none" /\ calls[i].parse = 0))
  /\ [][\A i \in Inv :
          /\ (pc[i] \in {"awaiting-input", "validating", "resolved"} /\ pc'[i] # pc[i]) =>
               /\ Rank(pc'[i]) > Rank(pc[i])
               /\ pc'[i] \in {"validating", "resolved"}
          /\ (pc'[i] = "validating" /\ pc[i] # "validating") =>
               (pc[i] = "awaiting-input" /\ data[i].state = "fulfilled")
          /\ (pc[i] = "awaiting-input" /\ pc'[i] = "resolved") =>
               data[i].state = "rejected"]_vars

C12_Witness ==
  \E i, j \in Inv :
    /\ pc[i] = "resolved" /\ data[i].state = "rejected" /\ parsed[i].state = "none"
    /\ pc[j] = "validating" /\ data[j].state = "fulfilled" /\ parsed[j].state = "pending"

(* C13: when the pending input settles and the validation step, once      *)
(* started, settles, the pair AsyncMaybe returns eventually settles and    *)
(* never changes afterwards; without a timeout of its own AsyncMaybe does  *)
(* not resolve before the pending input has settled.                       *)
C13_EventualResolution ==
  /\ <>[](\A i \in Inv : ret[i].state # "pending")
  /\ [][\A i \in Inv :
          /\ ret[i].state = "fulfilled" => ret'[i] = ret[i]
          /\ ret[i].state = "pending" => ret'[i].state \in {"pending", "fulfilled"}]_vars
  /\ [](\A i \in Inv :
          /\ (pc[i] = "awaiting-input" /\ data[i].state = "pending") =>
               ret[i].state = "pending"
          /\ ret[i].state = "fulfilled" => data[i].state \in {"fulfilled", "rejected"})

C13_Witness ==
  \E i, j \in Inv :
    /\ pc[i] = "resolved" /\ ret[i].state = "fulfilled" /\ data[i].state = "fulfilled"
    /\ pc[j] = "awaiting-input" /\ data[j].state = "pending" /\ ret[j].state = "pending"

(* C14: in every invocation of either validator fn is called exactly once  *)
(* when validation succeeds and not at all otherwise (validation failure,  *)
(* rejected input, validation raising); validation is started at most      *)
(* once per invocation.                                                    *)
C14_TransformCalledOnce ==
  \A i \in Inv :
    /\ calls[i].parse <= 1
    /\ (IsSync(i) \/ IsAsyncDone(i)) =>
         calls[i].fn = (IF Validated(i) THEN 1 ELSE 0)
    /\ ~(IsSync(i) \/ IsAsyncDone(i)) => calls[i].fn = 0

C14_Witness ==
  \E i, j \in Inv :
    /\ pc[i] = "resolved" /\ Validated(i) /\ calls[i] = [fn |-> 1, parse |-> 1]
    /\ pc[j] = "returned" /\ Invalid(j) /\ calls[j] = [fn |-> 0, parse |-> 1]

(* C15: on validation success Maybe and AsyncMaybe apply fn to the data of *)
(* the engine's success outcome, not to the raw input: when the two differ *)
(* the value handed back is fn(validated data).                            *)
C15_TransformOnValidatedData ==
  \A i \in Inv :
    (Validated(i) /\ OutcomeOf(i).data # data[i].value) =>
      IF FnOnData(i).threw
        THEN IsSync(i) => pc[i] = "threw"
        ELSE /\ HasPair(i)
             /\ ErrorOf(i) = Null
             /\ ValueOf(i) = FnOnData(i).value
             /\ (~FnOnInput(i).threw /\ FnOnInput(i).value # FnOnData(i).value) =>
                  ValueOf(i) # FnOnInput(i).value

C15_Witness ==
  \E i, j \in Inv :
    /\ validator = [fn |-> "identity", schema |-> "jsonSchema"]
    /\ pc[i] = "returned" /\ data[i].value = Str(<<"1", "2">>) /\ ValueOf(i) = Num(12)
    /\ pc[j] = "resolved" /\ data[j].value = Str(<<"1", "2">>) /\ ret[j].state = "fulfilled"
    /\ ValueOf(j) = Num(12)

====
